---------------------------- MODULE Spec2Model ----------------------------
(***************************************************************************)
(* Model of agente_nts: the batch loop of main.run, the download step of   *)
(* fetch_nts.ensure_pdf_downloaded, and the parsing heuristics of          *)
(* parse_pdf (rule tables, rule text, version/schedule block) together     *)
(* with utils.clean_space.                                                 *)
(*                                                                         *)
(* A Python str is a sequence of one-character strings.  Characters        *)
(* outside ASCII carry a name: "ccedil", "atilde", "otilde", "oacute"      *)
(* (and "Ccedil"), "nbsp" (U+00A0) and "emsp" (U+2003).  Python's None is  *)
(* the value None below, distinct from every str.                          *)
(***************************************************************************)
EXTENDS Integers, Sequences, FiniteSets, TLC

None == <<"<None>">>

\* Python: (c or "")
OrEmpty(c) == IF c = None THEN <<>> ELSE c

\* Python truthiness of an Optional[str]
Truthy(s) == s # None /\ s # <<>>

(***************************************************************************)
(* Character classes of Python's re module (str patterns) and str methods  *)
(***************************************************************************)
\* [ \t]
BlankChars == {" ", "\t"}

\* \s, and the characters str.strip() removes
SpaceChars == {" ", "\t", "\n", "nbsp", "emsp"}

\* \d
DigitChars == {"0", "1", "2", "3", "4", "5", "6", "7", "8", "9"}

UpperSeq == <<"A","B","C","D","E","F","G","H","I","J","K","L","M",
              "N","O","P","Q","R","S","T","U","V","W","X","Y","Z","Ccedil">>

LowerSeq == <<"a","b","c","d","e","f","g","h","i","j","k","l","m",
              "n","o","p","q","r","s","t","u","v","w","x","y","z","ccedil">>

\* [A-Z]
UpperAscii == {UpperSeq[k] : k \in 1..26}

\* [a-z]
LowerAscii == {LowerSeq[k] : k \in 1..26}

\* [A-Za-z]
AlphaAscii == UpperAscii \cup LowerAscii

\* \w : letters of any script, digits and the underscore
WordChars == AlphaAscii \cup DigitChars
               \cup {"_", "ccedil", "Ccedil", "atilde", "otilde", "oacute"}

\* str.lower() on one character
Lower(c) ==
    IF \E k \in 1..Len(UpperSeq) : UpperSeq[k] = c
    THEN LowerSeq[CHOOSE k \in 1..Len(UpperSeq) : UpperSeq[k] = c]
    ELSE c

\* the one element of a singleton: Only({F(x) : x \in {e}}) is F(e) with e
\* evaluated once, a local variable of the code
Only(S) == CHOOSE v \in S : TRUE

\* a sequence given as a function on 1..n, as a tuple
AsSeq(f) == f \o <<>>

\* str.lower()
LowerStr(s) == AsSeq([k \in 1..Len(s) |-> Lower(s[k])])

\* the first index >= i of s whose character is outside cls (Len(s)+1 if none):
\* where a greedy cls* or cls+ started at i ends
SkipIn(s, i, cls) ==
    CHOOSE k \in i..(Len(s) + 1) :
        /\ k = Len(s) + 1 \/ s[k] \notin cls
        /\ \A j \in i..(k - 1) : s[j] \in cls

\* the indices of s, in order
Indices(s) == AsSeq([k \in 1..Len(s) |-> k])

\* s[i-1:] from a 1-based index
Tail_(s, i) == SubSeq(s, i, Len(s))

\* the literal lit (lower case) occurs in s at index i, ignoring case (re.I)
LitAt(s, i, lit) ==
    /\ i >= 1
    /\ i + Len(lit) - 1 <= Len(s)
    /\ \A k \in 1..Len(lit) : Lower(s[i + k - 1]) = lit[k]

\* the literal lit occurs in s at index i, case kept
LitAtCase(s, i, lit) ==
    /\ i >= 1
    /\ i + Len(lit) - 1 <= Len(s)
    /\ \A k \in 1..Len(lit) : s[i + k - 1] = lit[k]

\* Python: sub in s
Contains(s, sub) == \E i \in 1..(Len(s) + 1) : LitAtCase(s, i, sub)

\* \b at the gap before index i of s
WordBoundary(s, i) ==
    LET before == i > 1 /\ i - 1 <= Len(s) /\ s[i - 1] \in WordChars
        after  == i >= 1 /\ i <= Len(s) /\ s[i] \in WordChars
    IN  before # after

\* str.strip()
Strip(s) ==
    IF \A k \in 1..Len(s) : s[k] \in SpaceChars THEN <<>>
    ELSE SubSeq(s, SkipIn(s, 1, SpaceChars),
                CHOOSE k \in 1..Len(s) :
                    s[k] \notin SpaceChars /\ \A m \in (k + 1)..Len(s) : s[m] \in SpaceChars)

(***************************************************************************)
(* utils.clean_space                                                       *)
(***************************************************************************)
\* s.replace("\xa0", " ")
ReplaceNbsp(s) == AsSeq([k \in 1..Len(s) |-> IF s[k] = "nbsp" THEN " " ELSE s[k]])

\* re.sub(r"[ \t]+", " ", s): a run of blanks leaves one space, where it starts
CollapseBlanks(s) ==
    Only({AsSeq([n \in 1..Len(kept) |-> IF s[kept[n]] \in BlankChars THEN " " ELSE s[kept[n]]]) :
          kept \in {SelectSeq(Indices(s),
                       LAMBDA k : ~(s[k] \in BlankChars /\ k > 1 /\ s[k - 1] \in BlankChars))}})

\* the run of \s around index k of s holds a newline
RunHasNewline(s, k) ==
    \/ \E j \in 1..k : s[j] = "\n" /\ \A m \in j..k : s[m] \in SpaceChars
    \/ \E j \in k..Len(s) : s[j] = "\n" /\ \A m \in k..j : s[m] \in SpaceChars

\* re.sub(r"\s*\n\s*", "\n", s): the leftmost match starts where a run of \s
\* starts and, the run holding a newline, covers the whole run
JoinAroundNewline(s) ==
    LET inRun(k) == s[k] \in SpaceChars /\ RunHasNewline(s, k)
    IN  Only({AsSeq([n \in 1..Len(kept) |-> IF inRun(kept[n]) THEN "\n" ELSE s[kept[n]]]) :
              kept \in {SelectSeq(Indices(s),
                           LAMBDA k : ~(inRun(k) /\ k > 1 /\ s[k - 1] \in SpaceChars))}})

\* re.sub(r"\n{3,}", "\n\n", s): of a run of newlines the first two stay
SqueezeNewlines(s) ==
    Only({AsSeq([n \in 1..Len(kept) |-> s[kept[n]]]) :
          kept \in {SelectSeq(Indices(s),
                       LAMBDA k : ~(k > 2 /\ s[k] = "\n" /\ s[k - 1] = "\n" /\ s[k - 2] = "\n"))}})

\* a clean_space that replaces the non-breaking spaces after collapsing
clean_space_nbsp_late(s) ==
    IF ~Truthy(s) THEN <<>>
    ELSE Only({Strip(e) : e \in {ReplaceNbsp(d) : d \in {SqueezeNewlines(c) :
              c \in {JoinAroundNewline(b) : b \in {CollapseBlanks(s)}}}}})

clean_space(s) ==
    IF ~Truthy(s) THEN <<>>
    ELSE Only({Strip(e) : e \in {SqueezeNewlines(d) : d \in {JoinAroundNewline(c) :
              c \in {CollapseBlanks(b) : b \in {ReplaceNbsp(s)}}}}})

(***************************************************************************)
(* parse_pdf: rule tables.  A table is a sequence of rows, a row a          *)
(* sequence of cells, a cell a str or None (pdfplumber's empty cell).      *)
(***************************************************************************)
\* sep.join(parts), by halves
RECURSIVE JoinWith(_, _)
JoinWith(parts, sep) ==
    IF parts = <<>> THEN <<>>
    ELSE IF Len(parts) = 1 THEN parts[1]
    ELSE LET h == Len(parts) \div 2
         IN  JoinWith(SubSeq(parts, 1, h), sep) \o sep
                 \o JoinWith(SubSeq(parts, h + 1, Len(parts)), sep)

MinTableRows == 2

HeaderScanRows == 3

PadWidth == 6

MinDescLen == 3

\* _guess_has_rv_header
guess_has_rv_header(row) ==
    Only({\/ Contains(head, <<"a","p","l","i","c">>) /\ Contains(head, <<"m","s","g">>)
          \/ Contains(head, <<"d","e","s","c","r","i">>) /\ Contains(head, <<"r","e","g","r","a">>) :
          head \in {JoinWith([k \in 1..Len(row) |-> LowerStr(OrEmpty(row[k]))], <<" ","|"," ">>)}})

\* [cell or "" for cell in r]
CellsOrEmpty(r) == AsSeq([k \in 1..Len(r) |-> OrEmpty(r[k])])

\* the position (1-based) in tbl of the first row of tbl[:3] that passes the
\* header test, 0 when none does
HeaderRow(tbl) ==
    IF \E h \in 1..Len(tbl) : h <= HeaderScanRows /\ guess_has_rv_header(CellsOrEmpty(tbl[h]))
    THEN CHOOSE h \in 1..Len(tbl) :
            /\ h <= HeaderScanRows /\ guess_has_rv_header(CellsOrEmpty(tbl[h]))
            /\ \A g \in 1..(h - 1) : ~guess_has_rv_header(CellsOrEmpty(tbl[g]))
    ELSE 0

\* header = [clean_space(cell or "") for cell in r]
HeaderCells(r) == AsSeq([k \in 1..Len(r) |-> clean_space(OrEmpty(r[k]))])

\* the alias sets of the five canonical columns
NamesRegra == <<<<"r","e","g","r","a">>, <<"r","v">>, <<"i","d">>>>

NamesCampo == <<<<"c","a","m","p","o">>, <<"i","d">>>>

NamesAplic == <<<<"a","p","l","i","c">>>>

NamesMsg == <<<<"m","s","g">>, <<"c","s","t","a","t">>>>

NamesDesc == <<<<"d","e","s","c","r">>, <<"d","e","s","c","r","i","c","c","e","d","i","l","a","t","i","l","d","e","o">>, <<"d","e","s","c","r","i","c","a","o">>, <<"o","b","s","e","r","v">>>>

\* find_idx: the position (1-based) of the first header cell holding one of
\* the names, 0 for Python's None
find_idx(header, names) ==
    LET hit(i) == \E k \in 1..Len(names) :
                      Contains(LowerStr(header[i]), LowerStr(names[k]))
    IN  IF \E i \in 1..Len(header) : hit(i)
        THEN CHOOSE i \in 1..Len(header) : hit(i) /\ \A j \in 1..(i - 1) : ~hit(j)
        ELSE 0

\* idx_campo, idx_regra, idx_aplic, idx_msg, idx_desc
ColumnIndex(header) ==
    [campo     |-> find_idx(header, NamesCampo),
     regra     |-> find_idx(header, NamesRegra),
     aplic     |-> find_idx(header, NamesAplic),
     msg       |-> find_idx(header, NamesMsg),
     descricao |-> find_idx(header, NamesDesc)]

\* cells = [clean_space(c or "") for c in r] + [""] * 6
PaddedCells(r) ==
    AsSeq([k \in 1..(Len(r) + PadWidth) |->
              IF k <= Len(r) THEN clean_space(OrEmpty(r[k])) ELSE <<>>])

\* cells[idx] raises IndexError past the padded row
RowRaises(r, idx) ==
    \/ idx.campo > Len(r) + PadWidth \/ idx.regra > Len(r) + PadWidth
    \/ idx.aplic > Len(r) + PadWidth \/ idx.msg > Len(r) + PadWidth
    \/ idx.descricao > Len(r) + PadWidth

\* cells[idx] if idx is not None else ""
CellAt(cells, idx) == IF idx = 0 THEN <<>> ELSE cells[idx]

\* row = dict(campo=..., regra=..., aplic=..., msg=..., descricao=...)
RowDict(r, idx) ==
    Only({[campo     |-> CellAt(cells, idx.campo),
           regra     |-> CellAt(cells, idx.regra),
           aplic     |-> CellAt(cells, idx.aplic),
           msg       |-> CellAt(cells, idx.msg),
           descricao |-> CellAt(cells, idx.descricao)] : cells \in {PaddedCells(r)}})

\* any(row.values())
AnyField(row) ==
    \/ row.campo # <<>> \/ row.regra # <<>> \/ row.aplic # <<>>
    \/ row.msg # <<>> \/ row.descricao # <<>>

\* a gate that keeps any non-empty row
RowKept_no_length(row) == AnyField(row)

\* the gate of a data row
RowKept(row) == AnyField(row) /\ Len(clean_space(row.descricao)) >= MinDescLen

\* the rows the loop "for r in tbl[1:]" visits
DataRows(tbl) == SubSeq(tbl, 2, Len(tbl))

\* the loop over the data rows of one table with column indices idx: the
\* records appended, or raised when a row raises IndexError
RowsLoop(rows, idx) ==
    IF \E k \in 1..Len(rows) : RowRaises(rows[k], idx)
    THEN [raised |-> TRUE, recs |-> <<>>]
    ELSE [raised |-> FALSE,
          recs   |-> SelectSeq(AsSeq([k \in 1..Len(rows) |-> RowDict(rows[k], idx)]), RowKept)]

\* one iteration of "for tbl in tables"
parse_table(tbl) ==
    IF tbl = <<>> \/ Len(tbl) < MinTableRows
    THEN [raised |-> FALSE, recs |-> <<>>]
    ELSE Only({IF h = 0 THEN [raised |-> FALSE, recs |-> <<>>]
               ELSE Only({RowsLoop(DataRows(tbl), idx) :
                          idx \in {ColumnIndex(HeaderCells(tbl[h]))}}) :
               h \in {HeaderRow(tbl)}})

\* _iter_tables: a page is the outcome of each extract_tables strategy in
\* order, [raised, tables]; a strategy that raises or finds nothing adds none
RECURSIVE iter_tables(_)
iter_tables(page) ==
    IF page = <<>> THEN <<>>
    ELSE (IF page[1].raised THEN <<>> ELSE page[1].tables) \o iter_tables(Tail(page))

\* sum(lists, [])
RECURSIVE Concat(_)
Concat(lists) ==
    IF lists = <<>> THEN <<>>
    ELSE IF Len(lists) = 1 THEN lists[1]
    ELSE LET h == Len(lists) \div 2
         IN  Concat(SubSeq(lists, 1, h)) \o Concat(SubSeq(lists, h + 1, Len(lists)))

\* the loop over the tables of the document, in page order
TablesLoop(tables) ==
    Only({IF \E k \in 1..Len(each) : each[k].raised
          THEN [raised |-> TRUE, recs |-> <<>>]
          ELSE [raised |-> FALSE,
                recs   |-> Concat(AsSeq([k \in 1..Len(each) |-> each[k].recs]))] :
          each \in {AsSeq([k \in 1..Len(tables) |-> parse_table(tables[k])])}})

RECURSIVE AllTables(_)
AllTables(pages) ==
    IF pages = <<>> THEN <<>>
    ELSE iter_tables(pages[1]) \o AllTables(Tail(pages))

\* _parse_rv_tables; pdf = [opens, pages], opens false when pdfplumber.open
\* raises
parse_rv_tables(pdf) ==
    IF ~pdf.opens THEN [raised |-> TRUE, recs |-> <<>>]
    ELSE TablesLoop(AllTables(pdf.pages))

(***************************************************************************)
(* parse_pdf: rule text (the fallback of the table path)                   *)
(***************************************************************************)
\* where \s+ started at i ends, 0 when no whitespace is there
SkipSpaces1(s, i) ==
    IF i >= 1 /\ i <= Len(s) /\ s[i] \in SpaceChars THEN SkipIn(s, i, SpaceChars) ELSE 0

\* RV_SECTION_RE matched at index 1 of text, the only place "^" allows
\* without re.M: ^\s*7\.\s*Regras\s+de\s+Valida(ç|c)(ão|ao)\s*
\* [found, g1, g2, end] with end the index after the match
RvSectionMatch(text) ==
    LET i1 == SkipIn(text, 1, SpaceChars)
        i2 == SkipIn(text, i1 + 2, SpaceChars)
        i3 == SkipSpaces1(text, i2 + 6)
        i4 == SkipSpaces1(text, i3 + 2)
        i5 == i4 + 6
        g1 == IF i5 <= Len(text) THEN <<text[i5]>> ELSE <<>>
        i6 == i5 + 1
        two == LitAt(text, i6, <<"a","o">>)
        ok == /\ LitAt(text, i1, <<"7",".">>)
              /\ LitAt(text, i2, <<"r","e","g","r","a","s">>)
              /\ i3 > 0 /\ LitAt(text, i3, <<"d","e">>)
              /\ i4 > 0 /\ LitAt(text, i4, <<"v","a","l","i","d","a">>)
              /\ i5 <= Len(text) /\ Lower(text[i5]) \in {"ccedil", "c"}
              /\ (two \/ LitAt(text, i6, <<"atilde", "o">>))
    IN  IF ok
        THEN [found |-> TRUE, g1 |-> g1, g2 |-> SubSeq(text, i6, i6 + 1),
              end |-> SkipIn(text, i6 + 2, SpaceChars)]
        ELSE [found |-> FALSE, g1 |-> <<>>, g2 |-> <<>>, end |-> 0]

\* RV_SECTION_RE.split(text, maxsplit=1): with a match the list holds the text
\* before it, the two groups of the pattern, and the text after it
RvSectionSplit(text) ==
    LET m == RvSectionMatch(text)
    IN  IF m.found THEN << <<>>, m.g1, m.g2, Tail_(text, m.end) >> ELSE <<text>>

\* re.split(r"\n{2,}", body): the pieces between the runs of two or more
\* newlines
SplitParas(s) ==
    LET starts == SelectSeq(Indices(s),
                      LAMBDA k : /\ s[k] = "\n" /\ k < Len(s) /\ s[k + 1] = "\n"
                                 /\ (k = 1 \/ s[k - 1] # "\n"))
    IN  AsSeq([n \in 1..(Len(starts) + 1) |->
            SubSeq(s, IF n = 1 THEN 1 ELSE SkipIn(s, starts[n - 1], {"\n"}),
                      IF n <= Len(starts) THEN starts[n] - 1 ELSE Len(s))])

\* re.search(r"\b<lit>\b", p, re.I)
SearchWord(p, lit) ==
    \E i \in 1..Len(p) :
        WordBoundary(p, i) /\ LitAt(p, i, lit) /\ WordBoundary(p, i + Len(lit))

\* re.search(r"\b(\d{3,4})\b", p): group 1 of the leftmost match, "" without
MsgCode(p) ==
    LET at(i) == LET n == SkipIn(p, i, DigitChars) - i
                 IN  WordBoundary(p, i) /\ n \in {3, 4} /\ WordBoundary(p, i + n)
        hits == {i \in 1..Len(p) : at(i)}
    IN  IF hits = {} THEN <<>>
        ELSE LET i == CHOOSE h \in hits : \A g \in hits : h <= g
             IN  SubSeq(p, i, SkipIn(p, i, DigitChars) - 1)

\* the end (index after) of \b([A-Z]{1,3}\d{1,3}[A-Za-z\-]*\d*)\b matched at i,
\* 0 without a match; the engine prefers more digits, then more letters and
\* hyphens, then more trailing digits
RuleIdEnd(p, i) ==
    LET u == SkipIn(p, i, UpperAscii) - i
        p1 == i + u
        dmax == SkipIn(p, p1, DigitChars) - p1
        lmax(d) == SkipIn(p, p1 + d, AlphaAscii \cup {"-"}) - (p1 + d)
        emax(d, l) == SkipIn(p, p1 + d + l, DigitChars) - (p1 + d + l)
        ends == UNION {UNION {{<<d, l, e>> : e \in {x \in 0..emax(d, l) :
                                                      WordBoundary(p, p1 + d + l + x)}} :
                              l \in 0..lmax(d)} :
                       d \in {x \in 1..3 : x <= dmax}}
        better(a, b) == \/ a[1] > b[1]
                        \/ a[1] = b[1] /\ a[2] > b[2]
                        \/ a[1] = b[1] /\ a[2] = b[2] /\ a[3] >= b[3]
    IN  IF ~WordBoundary(p, i) \/ u \notin {1, 2, 3} \/ ends = {} THEN 0
        ELSE LET t == CHOOSE a \in ends : \A b \in ends : better(a, b)
             IN  p1 + t[1] + t[2] + t[3]

\* group 1 of re.search of that pattern, "" without a match
RuleId(p) ==
    LET hits == {i \in 1..Len(p) : RuleIdEnd(p, i) > 0}
    IN  IF hits = {} THEN <<>>
        ELSE LET i == CHOOSE h \in hits : \A g \in hits : h <= g
             IN  SubSeq(p, i, RuleIdEnd(p, i) - 1)

\* re.match(r"^([A-Z]{1,3}\d{1,3})", regra) if regra else None: group 1 or ""
CampoOf(regra) ==
    LET u == SkipIn(regra, 1, UpperAscii) - 1
        d == SkipIn(regra, 1 + u, DigitChars) - (1 + u)
    IN  IF regra # <<>> /\ u \in {1, 2, 3} /\ d >= 1
        THEN SubSeq(regra, 1, u + (IF d > 3 THEN 3 ELSE d))
        ELSE <<>>

\* re.search(r"Rejei(ç|c)ão:\s*(.*)$", p, re.I): the indices where group 2 of a
\* match starts; "." stops at a newline and "$" wants the end of p
RejStarts(p) ==
    {i \in 1..Len(p) :
        /\ LitAt(p, i, <<"r","e","j","e","i">>)
        /\ i + 5 <= Len(p) /\ Lower(p[i + 5]) \in {"ccedil", "c"}
        /\ LitAt(p, i + 6, <<"atilde", "o", ":">>)
        /\ \A k \in SkipIn(p, i + 9, SpaceChars)..Len(p) : p[k] # "\n"}

\* re.sub(r"^(Obrig\.|Facult\.)\s*", "", desc, flags=re.I)
StripAplicPrefix(desc) ==
    IF LitAt(desc, 1, <<"o","b","r","i","g",".">>) THEN Tail_(desc, SkipIn(desc, 7, SpaceChars))
    ELSE IF LitAt(desc, 1, <<"f","a","c","u","l","t",".">>) THEN Tail_(desc, SkipIn(desc, 8, SpaceChars))
    ELSE desc

\* the body of the loop over the paragraphs: the record of paragraph para, in a
\* sequence, or nothing
ParaRecord(para) ==
    LET p     == clean_space(para)
        aplic == IF SearchWord(p, <<"o","b","r","i","g",".">>) THEN <<"O","b","r","i","g",".">>
                 ELSE IF SearchWord(p, <<"f","a","c","u","l","t",".">>) THEN <<"F","a","c","u","l","t",".">>
                 ELSE <<>>
        msg   == MsgCode(p)
        regra == RuleId(p)
        campo == CampoOf(regra)
        rej   == RejStarts(p)
        desc  == IF rej # {}
                 THEN LET i == CHOOSE h \in rej : \A g \in rej : h <= g
                      IN  Tail_(p, SkipIn(p, i + 9, SpaceChars))
                 ELSE StripAplicPrefix(p)
    IN  IF p = <<>> THEN <<>>
        ELSE IF desc # <<>> /\ (aplic # <<>> \/ msg # <<>> \/ regra # <<>>)
             THEN <<[campo |-> campo, regra |-> regra, aplic |-> aplic,
                     msg |-> msg, descricao |-> desc]>>
             ELSE <<>>

\* the loop over the paragraphs
ParasLoop(paras) ==
    LET got == SelectSeq([k \in 1..Len(paras) |-> ParaRecord(paras[k])],
                         LAMBDA r : r # <<>>)
    IN  AsSeq([n \in 1..Len(got) |-> got[n][1]])

\* _parse_rv_text
parse_rv_text(text) ==
    IF ~Truthy(text) THEN <<>>
    ELSE LET sec == RvSectionSplit(text)
         IN  IF Len(sec) < 2 THEN <<>>
             ELSE ParasLoop(SplitParas(sec[2]))

(***************************************************************************)
(* parse_pdf: version and schedule block                                   *)
(***************************************************************************)
VerWindow == 120

SchedWindow == 250

\* str.splitlines() for the line break "\n": no empty last line after a final
\* break
splitlines(s) ==
    LET nl == SelectSeq(Indices(s), LAMBDA k : s[k] = "\n")
        n  == Len(nl) + (IF s # <<>> /\ s[Len(s)] # "\n" THEN 1 ELSE 0)
    IN  AsSeq([k \in 1..n |->
            SubSeq(s, IF k = 1 THEN 1 ELSE nl[k - 1] + 1,
                      IF k <= Len(nl) THEN nl[k] - 1 ELSE Len(s))])

\* lines[:n]
Take(lines, n) == SubSeq(lines, 1, IF Len(lines) < n THEN Len(lines) ELSE n)

\* the least element of a non-empty set of indices
MinOf(S) == CHOOSE x \in S : \A y \in S : x <= y

\* CONTROL_VER_RE matched at i: Controle\s+de\s+Vers(ões|oes), re.I; the index
\* after the match, 0 without
ControlVerEnd(text, i) ==
    LET i2 == SkipSpaces1(text, i + 8)
        i3 == SkipSpaces1(text, i2 + 2)
    IN  IF /\ LitAt(text, i, <<"c","o","n","t","r","o","l","e">>)
           /\ i2 > 0 /\ LitAt(text, i2, <<"d","e">>)
           /\ i3 > 0 /\ LitAt(text, i3, <<"v","e","r","s">>)
           /\ (LitAt(text, i3 + 4, <<"o","e","s">>) \/ LitAt(text, i3 + 4, <<"otilde", "e", "s">>))
        THEN i3 + 7 ELSE 0

\* CONTROL_VER_RE.search(text): mcv.end() as an index after the match, 0 for
\* no match
ControlVerSearch(text) ==
    LET hits == {i \in 1..Len(text) : ControlVerEnd(text, i) > 0}
    IN  IF hits = {} THEN 0 ELSE ControlVerEnd(text, MinOf(hits))

\* HIST_CRONO_RE matched at i:
\* Hist(ó|o)rico\s+de\s+Altera(ç|c)(ões|oes)\s*/\s*Cronograma, re.I
HistCronoEnd(text, i) ==
    LET i2 == SkipSpaces1(text, i + 9)
        i3 == SkipSpaces1(text, i2 + 2)
        i4 == SkipIn(text, i3 + 10, SpaceChars)
        i5 == SkipIn(text, i4 + 1, SpaceChars)
    IN  IF /\ LitAt(text, i, <<"h","i","s","t">>)
           /\ i + 4 <= Len(text) /\ Lower(text[i + 4]) \in {"oacute", "o"}
           /\ LitAt(text, i + 5, <<"r","i","c","o">>)
           /\ i2 > 0 /\ LitAt(text, i2, <<"d","e">>)
           /\ i3 > 0 /\ LitAt(text, i3, <<"a","l","t","e","r","a">>)
           /\ i3 + 6 <= Len(text) /\ Lower(text[i3 + 6]) \in {"ccedil", "c"}
           /\ (LitAt(text, i3 + 7, <<"o","e","s">>) \/ LitAt(text, i3 + 7, <<"otilde", "e", "s">>))
           /\ LitAt(text, i4, <<"/">>)
           /\ LitAt(text, i5, <<"c","r","o","n","o","g","r","a","m","a">>)
        THEN i5 + 10 ELSE 0

\* HIST_CRONO_RE.search(text)
HistCronoSearch(text) ==
    LET hits == {i \in 1..Len(text) : HistCronoEnd(text, i) > 0}
    IN  IF hits = {} THEN 0 ELSE HistCronoEnd(text, MinOf(hits))

\* exactly-n digits of \d{n} at i
DigitsAt(s, i, n) ==
    i >= 1 /\ i + n - 1 <= Len(s) /\ \A k \in i..(i + n - 1) : s[k] \in DigitChars

\* the month/year token of VERSAO_LINHA_RE at i: the index after it, 0 without
\* (\d{2}/\d{4}|[A-Za-z]+/\d{4}|Março/\d{4}|Junho/\d{4}|Julho/\d{4}), re.I
MonthYearEnd(s, i) ==
    LET a == SkipIn(s, i, AlphaAscii)
    IN  IF DigitsAt(s, i, 2) /\ LitAt(s, i + 2, <<"/">>) /\ DigitsAt(s, i + 3, 4)
        THEN i + 7
        ELSE IF a > i /\ LitAt(s, a, <<"/">>) /\ DigitsAt(s, a + 1, 4)
        THEN a + 5
        ELSE IF LitAt(s, i, <<"m", "a", "r", "ccedil", "o", "/">>) /\ DigitsAt(s, i + 6, 4)
        THEN i + 10
        ELSE 0

\* VERSAO_LINHA_RE.match(ln): group 1, the label, or "" without a match
\* ^\s*(\d+\.\d+)\s+(<month/year>)\s+.*
VersaoLinha(ln) ==
    LET i0 == SkipIn(ln, 1, SpaceChars)
        i1 == SkipIn(ln, i0, DigitChars)
        i2 == SkipIn(ln, i1 + 1, DigitChars)
        i3 == SkipSpaces1(ln, i2)
        i4 == MonthYearEnd(ln, i3)
    IN  IF /\ i1 > i0 /\ LitAt(ln, i1, <<".">>) /\ i2 > i1 + 1
           /\ i3 > 0 /\ i4 > 0 /\ SkipSpaces1(ln, i4) > 0
        THEN SubSeq(ln, i0, i2 - 1) ELSE <<>>

\* the loop over the window: the labels of the matching lines, in order
Candidatas(lines) ==
    SelectSeq(AsSeq([k \in 1..Len(lines) |-> VersaoLinha(Strip(lines[k]))]),
              LAMBDA lab : lab # <<>>)

\* a version scan that keeps the first candidate
VersionScan_first(text) ==
    Only({IF e = 0 THEN None
          ELSE Only({IF candidatas = <<>> THEN None ELSE candidatas[1] :
                     candidatas \in {Candidatas(Take(splitlines(Tail_(text, e)), VerWindow))}}) :
          e \in {ControlVerSearch(text)}})

\* step 1 of _extract_versions_block: versao
VersionScan(text) ==
    Only({IF e = 0 THEN None
          ELSE Only({IF candidatas = <<>> THEN None ELSE candidatas[Len(candidatas)] :
                     candidatas \in {Candidatas(Take(splitlines(Tail_(text, e)), VerWindow))}}) :
          e \in {ControlVerSearch(text)}})

\* DATE_DDMMYYYY matched at i: \b(\d{2}/\d{2}/\d{4})\b
DateAt(s, i) ==
    /\ WordBoundary(s, i)
    /\ DigitsAt(s, i, 2) /\ LitAt(s, i + 2, <<"/">>)
    /\ DigitsAt(s, i + 3, 2) /\ LitAt(s, i + 5, <<"/">>)
    /\ DigitsAt(s, i + 6, 4)
    /\ WordBoundary(s, i + 10)

\* DATE_DDMMYYYY.findall(s): two matches never overlap (a second one would
\* start after a "/" of the first and find a digit where its own "/" goes), so
\* the non-overlapping scan finds every index the pattern matches at
FindDates(s) ==
    LET at == SelectSeq(Indices(s), LAMBDA k : DateAt(s, k))
    IN  AsSeq([n \in 1..Len(at) |-> SubSeq(s, at[n], at[n] + 9)])

\* a schedule scan that takes the first two dates
ScheduleScan_first_two(text) ==
    Only({IF e = 0 THEN <<None, None>>
          ELSE Only({IF Len(datas) < 2 THEN <<None, None>> ELSE <<datas[1], datas[2]>> :
                     datas \in {FindDates(JoinWith(Take(splitlines(Tail_(text, e)), SchedWindow),
                                                   <<"\n">>))}}) :
          e \in {HistCronoSearch(text)}})

\* step 2 of _extract_versions_block: (dt_hml, dt_prd)
ScheduleScan(text) ==
    Only({IF e = 0 THEN <<None, None>>
          ELSE Only({IF Len(datas) < 2 THEN <<None, None>> ELSE <<datas[Len(datas) - 1], datas[Len(datas)]>> :
                     datas \in {FindDates(JoinWith(Take(splitlines(Tail_(text, e)), SchedWindow),
                                                   <<"\n">>))}}) :
          e \in {HistCronoSearch(text)}})

\* _extract_versions_block
extract_versions_block(text) ==
    Only({[versao |-> VersionScan(text), dt_hml |-> sched[1], dt_prd |-> sched[2]] :
          sched \in {ScheduleScan(text)}})

(***************************************************************************)
(* parse_pdf.extract_rules_from_pdf                                        *)
(***************************************************************************)
\* A downloaded document: readable is false when pypdf raises in _pdf_text,
\* text is the text of its pages joined by "\n", pdf what pdfplumber gives.

\* _pdf_text: "" when the reader raises
pdf_text(doc) == IF doc.readable THEN doc.text ELSE <<>>

\* the try/except around _parse_rv_tables: table_rvs stays [] when it raises
TableRvs(doc) ==
    Only({IF r.raised THEN <<>> ELSE r.recs : r \in {parse_rv_tables(doc.pdf)}})

\* a fallback that parses the text whatever the tables gave
TextFallback_always(table_rvs, text) ==
    [tried |-> TRUE, rvs |-> parse_rv_text(text)]

\* "if not table_rvs: text_rvs = _parse_rv_text(text) else: text_rvs = []"
TextFallback(table_rvs, text) ==
    IF table_rvs = <<>>
    THEN [tried |-> TRUE, rvs |-> parse_rv_text(text)]
    ELSE [tried |-> FALSE, rvs |-> <<>>]

\* rvs = table_rvs or text_rvs
ChosenRvs(table_rvs, text_rvs) == IF table_rvs # <<>> THEN table_rvs ELSE text_rvs

\* a metadata row without the version block: the row run makes for a document
\* that gave no PDF
MetadataRow_no_version(titulo, publicada_em, ver) ==
    [nt_titulo |-> titulo, nt_versao |-> None, publicada_em |-> publicada_em,
     implantacao_homolog |-> None, implantacao_producao |-> None,
     grupo |-> None, campo |-> None, regra |-> None, aplic |-> None, msg |-> None,
     descricao |-> None]

\* the NTRow of a document without rules
MetadataRow(titulo, publicada_em, ver) ==
    [nt_titulo |-> titulo, nt_versao |-> ver.versao, publicada_em |-> publicada_em,
     implantacao_homolog |-> ver.dt_hml, implantacao_producao |-> ver.dt_prd,
     grupo |-> None, campo |-> None, regra |-> None, aplic |-> None, msg |-> None,
     descricao |-> None]

\* the NTRow of one rule record
RuleRow(titulo, publicada_em, ver, rv) ==
    [nt_titulo |-> titulo, nt_versao |-> ver.versao, publicada_em |-> publicada_em,
     implantacao_homolog |-> ver.dt_hml, implantacao_producao |-> ver.dt_prd,
     grupo |-> None,
     campo |-> clean_space(rv.campo), regra |-> clean_space(rv.regra),
     aplic |-> clean_space(rv.aplic), msg |-> clean_space(rv.msg),
     descricao |-> clean_space(rv.descricao)]

\* a loop over the records that stops before the last one
RuleRows_drop_last(titulo, publicada_em, ver, rvs) ==
    AsSeq([k \in 1..(Len(rvs) - 1) |-> RuleRow(titulo, publicada_em, ver, rvs[k])])

\* "for rv in rvs: rows.append(NTRow(...))"
RuleRows(titulo, publicada_em, ver, rvs) ==
    AsSeq([k \in 1..Len(rvs) |-> RuleRow(titulo, publicada_em, ver, rvs[k])])

\* extract_rules_from_pdf: rows is what it returns, the other fields are its
\* locals
extract_rules_from_pdf(doc, nt_titulo, publicada_em) ==
    Only({Only({Only({Only({Only({
        [text |-> text, ver |-> ver, table_rvs |-> table_rvs,
         text_tried |-> fb.tried, text_rvs |-> fb.rvs, rvs |-> rvs,
         rows |-> IF rvs = <<>>
                  THEN <<MetadataRow(nt_titulo, publicada_em, ver)>>
                  ELSE RuleRows(nt_titulo, publicada_em, ver, rvs)] :
        rvs \in {ChosenRvs(table_rvs, fb.rvs)}}) :
        fb \in {TextFallback(table_rvs, text)}}) :
        table_rvs \in {TableRvs(doc)}}) :
        ver \in {extract_versions_block(text)}}) :
        text \in {pdf_text(doc)}})
(***************************************************************************)
(* Documents the portal may serve                                          *)
(***************************************************************************)
HdrFull == <<<<"C","a","m","p","o">>, <<"R","e","g","r","a">>, <<"A","p","l","i","c",".">>, <<"M","s","g">>, <<"D","e","s","c","r","i","ccedil","atilde","o">>>>

HdrNoDesc == <<<<"A","p","l","i","c",".">>, <<"M","e","n","s","a","g","e","m">>, <<"C","s","t","a","t">>>>

HdrWide == <<<<"#">>, <<"C","a","m","p","o">>, <<"R","e","g","r","a">>, <<"A","p","l","i","c",".">>, <<"M","s","g">>, <<"O","c","o","r","r",".">>, <<"T","a","m",".">>,
             <<"D","e","s","c","r","i","ccedil","atilde","o">>>>

RowB09 == <<<<"B","0","9">>, <<"B","0","9","-","2","0">>, <<"O","b","r","i","g",".">>, <<"6","5","6">>, <<"C","a","m","p","o"," "," ","o","b","r","i","g","a","t","oacute","r","i","o">>>>

RowE16 == <<<<"E","1","6">>, <<"E","1","6","a","-","3","0">>, <<"F","a","c","u","l","t",".">>, <<"7","0","0">>, <<"V","a","l","o","r","\n","i","n","v","a","l","i","d","o"," ">>>>

RowShortDesc == <<<<"B","1","0">>, <<"B","1","0","-","1","0">>, <<"F","a","c","u","l","t",".">>, <<"6","5","7">>, <<"a","b">>>>

RowBlank == <<None, <<>>, None, <<" ">>, None>>

RowOneCell == <<<<"E","1","7">>>>

TextVersions ==
    <<"C","o","n","t","r","o","l","e"," ","d","e"," ","V","e","r","s","otilde","e","s","\n","1",".","0","0"," ","0","1","/","2","0","2","5"," ","f","o","o","\n","1",".","1","0"," ","0","3","/","2","0","2","5"," ","b","a","r","\n","1",".","2","0"," ","0","6","/","2","0","2","5"," ","b","a","z","\n">>

TextSchedule ==
    <<"H","i","s","t","oacute","r","i","c","o"," ","d","e"," ","A","l","t","e","r","a","ccedil","otilde","e","s"," ","/"," ","C","r","o","n","o","g","r","a","m","a","\n","0","1","/","0","3","/","2","0","2","5"," ","x","\n","1","5","/","0","6","/","2","0","2","5"," ","0","1","/","0","7","/","2","0","2","5","\n">>

TextRules == <<"7","."," ","R","e","g","r","a","s"," ","d","e"," ","V","a","l","i","d","a","ccedil","atilde","o","\n","\n","B","0","9","-","2","0"," ","6","5","6"," ","R","e","j","e","i","ccedil","atilde","o",":"," ","c","a","m","p","o"," ","o","b","r","i","g","a","t","oacute","r","i","o","\n">>

\* one page of pdfplumber: the outcome of each of the three strategies
Found(tables) == [raised |-> FALSE, tables |-> tables]

Failed == [raised |-> TRUE, tables |-> <<>>]

PageOf(tbl) == <<Found(<<tbl>>), Failed, Found(<<>>)>>

DocTable ==
    [readable |-> TRUE, text |-> TextVersions \o TextSchedule,
     pdf |-> [opens |-> TRUE, pages |-> <<PageOf(<<HdrFull, RowB09, RowShortDesc, RowE16>>)>>]]

DocTwice ==
    [readable |-> FALSE, text |-> <<>>,
     pdf |-> [opens |-> TRUE,
              pages |-> << <<Found(<< <<HdrFull, RowB09>> >>), Found(<< <<HdrFull, RowB09>> >>),
                             Failed>> >>]]

DocTextOnly ==
    [readable |-> TRUE, text |-> TextRules \o TextVersions,
     pdf |-> [opens |-> TRUE, pages |-> <<PageOf(<<HdrNoDesc, RowB09>>)>>]]

DocOpenFails ==
    [readable |-> TRUE, text |-> TextSchedule,
     pdf |-> [opens |-> FALSE, pages |-> <<>>]]

DocShortRow ==
    [readable |-> TRUE, text |-> TextVersions,
     pdf |-> [opens |-> TRUE,
              pages |-> <<PageOf(<<HdrFull, RowB09>>), PageOf(<<HdrWide, RowOneCell>>)>>]]

DocEmpty ==
    [readable |-> TRUE, text |-> <<>>, pdf |-> [opens |-> TRUE, pages |-> <<>>]]

Docs == {DocTable, DocTwice, DocTextOnly, DocOpenFails, DocShortRow, DocEmpty}

\* the links discover_nts_by_publish_date returns: each has a publication
\* date, and one not before MIN_DATE
Links ==
    {[titulo |-> "Nota Tecnica 2025.001", publicada_em |-> [y |-> 2025, m |-> 1, d |-> 1]],
     [titulo |-> "Nota Tecnica 2025.002 v1.20", publicada_em |-> [y |-> 2025, m |-> 11, d |-> 30]]}

MaxDocs == 2

RECURSIVE SeqsUpTo(_, _)
SeqsUpTo(S, n) ==
    IF n = 0 THEN {<<>>}
    ELSE LET shorter == SeqsUpTo(S, n - 1)
         IN  shorter \cup {Append(q, x) : q \in {r \in shorter : Len(r) = n - 1}, x \in S}

(***************************************************************************)
(* State                                                                   *)
(***************************************************************************)
VARIABLES
    nts,          \* run: the discovered links
    pc,           \* run: "loop", "extract", "done", "raised" ("idle": not run)
    i,            \* run: the position in nts of the document in hand
    doc,          \* run: the PDF saved for nts[i], while pc = "extract"
    all_rows,     \* run: the accumulated output rows
    total_rules,  \* run: the count of rows with a description
    emitted,      \* history: emitted[k] = number of rows appended for nts[k]
    ex,           \* the locals and result of the last extract_rules_from_pdf
    arg,          \* the argument of the function under test
    ret,          \* its results, or accumulated output
    calls         \* the number of calls made

vars == <<nts, pc, i, doc, all_rows, total_rules, emitted, ex, arg, ret, calls>>

runVars == <<nts, pc, i, doc, all_rows, total_rules, emitted, ex>>

fnVars == <<arg, ret, calls>>

NoDoc == [readable |-> FALSE, text |-> <<>>, pdf |-> [opens |-> FALSE, pages |-> <<>>]]

NoEx == [valid |-> FALSE]

FnIdle == arg = <<>> /\ ret = <<>> /\ calls = 0

RunIdle ==
    /\ nts = <<>> /\ pc = "idle" /\ i = 0 /\ doc = NoDoc /\ all_rows = <<>>
    /\ total_rules = 0 /\ emitted = <<>> /\ ex = NoEx

(***************************************************************************)
(* main.run                                                                *)
(***************************************************************************)
DigitSeq == <<"0", "1", "2", "3", "4", "5", "6", "7", "8", "9">>

\* a number as n zero-padded decimal digits
RECURSIVE Padded(_, _)
Padded(x, n) ==
    IF n = 0 THEN <<>> ELSE Padded(x \div 10, n - 1) \o <<DigitSeq[(x % 10) + 1]>>

\* nt.publicada_em.strftime("%d/%m/%Y")
strftime(date) ==
    Padded(date.d, 2) \o <<"/">> \o Padded(date.m, 2) \o <<"/">> \o Padded(date.y, 4)

\* the dict run appends for an NTRow
OutputDict(r) ==
    [NT |-> r.nt_titulo, Versao |-> r.nt_versao, PublicadaEm |-> r.publicada_em,
     Homologacao |-> r.implantacao_homolog, Producao |-> r.implantacao_producao,
     Grupo |-> r.grupo, Campo |-> r.campo, Regra |-> r.regra, Aplic |-> r.aplic,
     Msg |-> r.msg, Descricao |-> r.descricao]

\* the row of a document that gave no PDF
EmptyRow(nt) ==
    [nt_titulo |-> nt.titulo, nt_versao |-> None, publicada_em |-> strftime(nt.publicada_em),
     implantacao_homolog |-> None, implantacao_producao |-> None,
     grupo |-> None, campo |-> None, regra |-> None, aplic |-> None, msg |-> None,
     descricao |-> None]

Init ==
    /\ nts \in SeqsUpTo(Links, MaxDocs)
    /\ pc = "loop"
    /\ i = 1
    /\ doc = NoDoc
    /\ all_rows = <<>>
    /\ total_rules = 0
    /\ emitted = [k \in 1..Len(nts) |-> 0]
    /\ ex = NoEx
    /\ FnIdle

\* "if not nts": the sheet with the headers only
FinishEmpty ==
    /\ pc = "loop" /\ nts = <<>>
    /\ pc' = "done"
    /\ UNCHANGED <<nts, i, doc, all_rows, total_rules, emitted, ex>>
    /\ UNCHANGED fnVars

\* ensure_pdf_downloaded returns None: the request raised (kind "request"), or
\* the content was no PDF and was saved as HTML (kind "html"); run appends the
\* row of metadata and continues
DownloadNothing ==
    /\ pc = "loop" /\ i <= Len(nts)
    /\ \E kind \in {"request", "html"} :
        /\ all_rows' = Append(all_rows, OutputDict(EmptyRow(nts[i])))
        /\ emitted' = [emitted EXCEPT ![i] = @ + 1]
    /\ i' = i + 1
    /\ UNCHANGED <<nts, pc, doc, total_rules, ex>>
    /\ UNCHANGED fnVars

\* ensure_pdf_downloaded: out.write_bytes or out.write_text raises (OSError);
\* neither it nor run catches, and run ends with the exception
DownloadSaveRaises ==
    /\ pc = "loop" /\ i <= Len(nts)
    /\ \E kind \in {"pdf", "html"} : pc' = "raised"
    /\ UNCHANGED <<nts, i, doc, all_rows, total_rules, emitted, ex>>
    /\ UNCHANGED fnVars

\* ensure_pdf_downloaded saves a PDF and returns its path
DownloadPdf ==
    /\ pc = "loop" /\ i <= Len(nts)
    /\ \E d \in Docs : doc' = d
    /\ pc' = "extract"
    /\ UNCHANGED <<nts, i, all_rows, total_rules, emitted, ex>>
    /\ UNCHANGED fnVars

\* "for r in rows: all_rows.append({...})"
Accumulate(rows) == AsSeq([j \in 1..Len(rows) |-> OutputDict(rows[j])])

\* the rest of the iteration: extract_rules_from_pdf, the rows appended, the
\* rules counted
Extract ==
    /\ pc = "extract"
    /\ \E r \in {extract_rules_from_pdf(doc, nts[i].titulo, strftime(nts[i].publicada_em))} :
           /\ ex' = [valid |-> TRUE, doc |-> doc, titulo |-> nts[i].titulo,
                     publicada_em |-> strftime(nts[i].publicada_em),
                     text |-> r.text, ver |-> r.ver, table_rvs |-> r.table_rvs,
                     text_tried |-> r.text_tried, text_rvs |-> r.text_rvs,
                     rvs |-> r.rvs, rows |-> r.rows]
           /\ all_rows' = all_rows \o Accumulate(r.rows)
           /\ emitted' = [emitted EXCEPT ![i] = @ + Len(r.rows)]
           /\ total_rules' = total_rules
                  + Cardinality({j \in 1..Len(r.rows) : Truthy(r.rows[j].descricao)})
    /\ pc' = "loop"
    /\ i' = i + 1
    /\ doc' = NoDoc
    /\ UNCHANGED nts
    /\ UNCHANGED fnVars

\* the loop is over: write_rules_to_xlsx
Finish ==
    /\ pc = "loop" /\ nts # <<>> /\ i > Len(nts)
    /\ pc' = "done"
    /\ UNCHANGED <<nts, i, doc, all_rows, total_rules, emitted, ex>>
    /\ UNCHANGED fnVars

Next ==
    \/ FinishEmpty
    \/ DownloadNothing
    \/ DownloadSaveRaises
    \/ DownloadPdf
    \/ Extract
    \/ Finish

Spec == Init /\ [][Next]_vars

(***************************************************************************)
(* utils.clean_space applied, and applied again to its own result          *)
(***************************************************************************)
MaxStrLen == 4

CleanChars == {" ", "\t", "nbsp", "\n", "emsp", "a"}

InitClean ==
    /\ RunIdle
    /\ arg \in SeqsUpTo(CleanChars, MaxStrLen) \cup {None}
    /\ ret = <<>>
    /\ calls = 0

\* ret[1] = clean_space(arg), ret[2] = clean_space(ret[1])
Normalize ==
    /\ calls < 2
    /\ ret' = Append(ret, clean_space(IF calls = 0 THEN arg ELSE ret[calls]))
    /\ calls' = calls + 1
    /\ UNCHANGED arg
    /\ UNCHANGED runVars

NextClean == Normalize

SpecClean == InitClean /\ [][NextClean]_vars

(***************************************************************************)
(* parse_pdf._guess_has_rv_header on one row                               *)
(***************************************************************************)
MaxCols == 3

HeaderLabels ==
    {<<"C","a","m","p","o">>, <<"R","e","g","r","a">>, <<"A","p","l","i","c",".">>, <<"M","s","g">>, <<"D","e","s","c","r","i","ccedil","atilde","o">>, <<"M","e","n","s","a","g","e","m">>, <<"C","s","t","a","t">>,
     <<"M","S","G">>, None}

InitHeader ==
    /\ RunIdle
    /\ arg \in SeqsUpTo(HeaderLabels, MaxCols) \cup {HdrFull, HdrNoDesc, HdrWide}
    /\ ret = FALSE
    /\ calls = 0

\* the test _parse_rv_tables makes of a row: _guess_has_rv_header([cell or ""
\* for cell in r])
GuessHeader ==
    /\ calls = 0
    /\ ret' = guess_has_rv_header(CellsOrEmpty(arg))
    /\ calls' = 1
    /\ UNCHANGED arg
    /\ UNCHANGED runVars

NextHeader == GuessHeader

SpecHeader == InitHeader /\ [][NextHeader]_vars

(***************************************************************************)
(* parse_pdf._parse_rv_tables, page after page: arg is the page in hand,   *)
(* ret the records so far (out) or raised once an exception left the       *)
(* function, calls the number of pages read                                *)
(***************************************************************************)
MaxRows == 4

MaxPages == 2

TableRows == {HdrFull, HdrWide, RowB09, RowShortDesc, RowOneCell}

Tables == SeqsUpTo(TableRows, MaxRows)

\* the first page of a document
FirstPages == {PageOf(t) : t \in Tables}

\* the pages after it
FollowPages ==
    {PageOf(<<HdrFull, RowB09>>),
     <<Found(<< <<RowShortDesc, HdrFull, RowE16>> >>), Found(<< <<HdrFull, RowE16>> >>), Failed>>,
     PageOf(<<HdrWide, RowOneCell>>),
     <<Failed, Failed, Found(<< <<HdrNoDesc, RowB09>>, <<HdrFull>> >>)>>}

InitTables ==
    /\ RunIdle
    /\ arg = <<>>
    /\ ret = [raised |-> FALSE, recs |-> <<>>]
    /\ calls = 0

\* pdfplumber.open raises
OpenRaises ==
    /\ calls = 0 /\ ~ret.raised
    /\ ret' = [raised |-> TRUE, recs |-> <<>>]
    /\ UNCHANGED <<arg, calls>>
    /\ UNCHANGED runVars

\* one iteration of "for page in pdf.pages"
ParsePage ==
    /\ calls < MaxPages /\ ~ret.raised
    /\ \E page \in (IF calls = 0 THEN FirstPages ELSE FollowPages) :
        /\ arg' = page
        /\ \E r \in {TablesLoop(iter_tables(page))} :
               ret' = IF r.raised THEN [raised |-> TRUE, recs |-> <<>>]
                      ELSE [raised |-> FALSE, recs |-> ret.recs \o r.recs]
    /\ calls' = calls + 1
    /\ UNCHANGED runVars

NextTables == OpenRaises \/ ParsePage

SpecTables == InitTables /\ [][NextTables]_vars

(***************************************************************************)
(* parse_pdf._parse_rv_text on one text                                    *)
(***************************************************************************)
MaxTextLines == 4

LineSection == <<"7","."," ","R","e","g","r","a","s"," ","d","e"," ","V","a","l","i","d","a","ccedil","atilde","o">>

LineRule == <<"B","0","9","-","2","0"," ","6","5","6"," ","R","e","j","e","i","ccedil","atilde","o",":"," ","c","a","m","p","o"," ","o","b","r","i","g","a","t","oacute","r","i","o">>

TextLines == {LineSection, <<"1","."," ","I","n","t","r","o">>, <<>>, LineRule, <<"t","e","x","t","o"," ","l","i","v","r","e">>}

InitText ==
    /\ RunIdle
    /\ arg \in {JoinWith(ls, <<"\n">>) : ls \in SeqsUpTo(TextLines, MaxTextLines)}
                 \cup {TextRules}
    /\ ret = <<>>
    /\ calls = 0

ParseText ==
    /\ calls = 0
    /\ ret' = parse_rv_text(arg)
    /\ calls' = 1
    /\ UNCHANGED arg
    /\ UNCHANGED runVars

NextText == ParseText

SpecText == InitText /\ [][NextText]_vars

(***************************************************************************)
(* parse_pdf._extract_versions_block on one text                           *)
(***************************************************************************)
MaxVerLines == 4

LineControle == <<"C","o","n","t","r","o","l","e"," ","d","e"," ","V","e","r","s","otilde","e","s">>

LineHist == <<"H","i","s","t","oacute","r","i","c","o"," ","d","e"," ","A","l","t","e","r","a","ccedil","otilde","e","s"," ","/"," ","C","r","o","n","o","g","r","a","m","a">>

LineV100 == <<"1",".","0","0"," ","0","1","/","2","0","2","5"," ","f","o","o">>

LineV120 == <<"1",".","2","0"," ","J","u","n","h","o","/","2","0","2","5"," ","b","a","z">>

LineD1 == <<"0","1","/","0","3","/","2","0","2","5">>

LineD23 == <<"H","M","L"," ","1","5","/","0","6","/","2","0","2","5"," ","P","R","D"," ","0","1","/","0","7","/","2","0","2","5">>

VersionLines == {LineControle, LineHist, LineV100, LineV120, LineD1, LineD23}

\* n line breaks
Breaks(n) == [k \in 1..n |-> "\n"]

\* texts whose lines of interest sit at the edge of the 120 and 250 line windows
EdgeTexts ==
    {LineControle \o Breaks(n) \o LineV120 \o <<"\n">> \o LineV100 \o <<" ", "\n">>
        \o <<"1",".","1","0"," ","0","3","/","2","0","2","5">> : n \in {VerWindow - 2, VerWindow - 1, VerWindow}}
    \cup
    {LineHist \o Breaks(n) \o LineD1 \o <<"\n">> \o LineD23 :
        n \in {SchedWindow - 2, SchedWindow - 1, SchedWindow}}
    \cup {TextVersions, TextSchedule, TextVersions \o TextSchedule}

InitVersions ==
    /\ RunIdle
    /\ arg \in {JoinWith(ls, <<"\n">>) : ls \in SeqsUpTo(VersionLines, MaxVerLines)}
                 \cup EdgeTexts
    /\ ret = <<>>
    /\ calls = 0

ExtractVersions ==
    /\ calls = 0
    /\ ret' = extract_versions_block(arg)
    /\ calls' = 1
    /\ UNCHANGED arg
    /\ UNCHANGED runVars

NextVersions == ExtractVersions

SpecVersions == InitVersions /\ [][NextVersions]_vars

(***************************************************************************)
(* Properties of main.run                                                  *)
(***************************************************************************)
\* C1: whatever happens while one document is downloaded, saved or parsed,
\* run reaches the end of its loop, and then every discovered document has at
\* least one row in the output. Violated: an exception of out.write_bytes or
\* out.write_text leaves ensure_pdf_downloaded and run.
C1_BatchSurvivesEveryDocument ==
    /\ pc # "raised"
    /\ pc = "done" => \A k \in 1..Len(nts) : emitted[k] >= 1

(***************************************************************************)
(* Properties of parse_pdf.extract_rules_from_pdf                          *)
(***************************************************************************)
\* C2: the text parser is tried only when the table parser gave no record
\* (an exception of the table parser counts as no record), and the records
\* behind the rows of a document are those of the table path or those of the
\* text path, never both.
C2_TextOnlyAfterEmptyTables ==
    ex.valid =>
        /\ ex.text_tried => ex.table_rvs = <<>>
        /\ parse_rv_tables(ex.doc.pdf).raised => ex.table_rvs = <<>>
        /\ ex.rvs = ex.table_rvs \/ ex.rvs = ex.text_rvs
        /\ ex.table_rvs # <<>> => ex.rvs = ex.table_rvs /\ ex.text_rvs = <<>>

\* the text parser runs after the table parser raised
C2_TextTriedAfterRaise ==
    ex.valid /\ ex.text_tried /\ ex.doc.pdf.opens /\ parse_rv_tables(ex.doc.pdf).raised

\* C3: a document for which the table path and the text path both give no
\* record gets exactly one row; it carries the title, the version, the
\* staging date and the production date computed for the document, and its
\* group, field code, rule id, applicability, message and description are
\* all unset.
C3_OneMetadataRow ==
    (ex.valid /\ ex.table_rvs = <<>> /\ ex.text_rvs = <<>>) =>
        /\ Len(ex.rows) = 1
        /\ ex.rows[1].nt_titulo = ex.titulo
        /\ ex.rows[1].publicada_em = ex.publicada_em
        /\ ex.rows[1].nt_versao = ex.ver.versao
        /\ ex.rows[1].implantacao_homolog = ex.ver.dt_hml
        /\ ex.rows[1].implantacao_producao = ex.ver.dt_prd
        /\ ex.ver = extract_versions_block(pdf_text(ex.doc))
        /\ \A f \in {"grupo", "campo", "regra", "aplic", "msg", "descricao"} :
               ex.rows[1][f] = None

\* a document without records whose version was found
C3_MetadataRowWithVersion ==
    /\ ex.valid /\ ex.table_rvs = <<>> /\ ex.text_rvs = <<>>
    /\ ex.ver.versao # None
    /\ Len(ex.rows) = 1

\* C4: a document whose selected path gives N >= 1 records gets exactly N
\* rows, the k-th row made of the k-th record, and all rows carry the same
\* title, publication date, version, staging date and production date, with
\* the group unset.
C4_OneRowPerRecord ==
    (ex.valid /\ Len(ex.rvs) >= 1) =>
        /\ Len(ex.rows) = Len(ex.rvs)
        /\ \A k \in 1..Len(ex.rvs) :
            /\ ex.rows[k].nt_titulo = ex.titulo
            /\ ex.rows[k].publicada_em = ex.publicada_em
            /\ ex.rows[k].nt_versao = ex.ver.versao
            /\ ex.rows[k].implantacao_homolog = ex.ver.dt_hml
            /\ ex.rows[k].implantacao_producao = ex.ver.dt_prd
            /\ ex.rows[k].grupo = None
            /\ ex.rows[k].campo = clean_space(ex.rvs[k].campo)
            /\ ex.rows[k].regra = clean_space(ex.rvs[k].regra)
            /\ ex.rows[k].aplic = clean_space(ex.rvs[k].aplic)
            /\ ex.rows[k].msg = clean_space(ex.rvs[k].msg)
            /\ ex.rows[k].descricao = clean_space(ex.rvs[k].descricao)

\* a document with two different records and a version
C4_TwoRecords ==
    /\ ex.valid /\ Len(ex.rvs) >= 2 /\ ex.rvs[1] # ex.rvs[2]
    /\ ex.ver.versao # None /\ ex.ver.dt_prd # None
    /\ Len(ex.rows) = Len(ex.rvs)

(***************************************************************************)
(* Properties of parse_pdf._guess_has_rv_header                            *)
(***************************************************************************)
\* C5: a row with an applicability label and a message label, in any of the
\* names _parse_rv_tables resolves these two columns by, or with a
\* description label and a rule label, is recognized as a header; so is the
\* row ["Aplic.", "Mensagem", "Cstat"]. Violated: the test looks for "msg"
\* only, and neither "Mensagem" nor "Cstat" holds it.
C5_AliasHeaderRecognized ==
    calls = 1 =>
        /\ arg = HdrNoDesc => ret = TRUE
        /\ \A header \in {HeaderCells(arg)} :
            (\/ find_idx(header, NamesAplic) # 0 /\ find_idx(header, NamesMsg) # 0
             \/ find_idx(header, NamesDesc) # 0 /\ find_idx(header, NamesRegra) # 0)
                => ret = TRUE

(***************************************************************************)
(* Properties of parse_pdf._parse_rv_text                                  *)
(***************************************************************************)
\* s holds lit at index k, case kept
C6_At(s, k, lit) == k >= 1 /\ k + Len(lit) - 1 <= Len(s) /\ SubSeq(s, k, k + Len(lit) - 1) = lit

\* C6: when some line of the text, the first or a later one, begins with
\* "7. Regras de Validação", and a blank line and then a paragraph with a
\* rule id, a message code and a description follow it, the text parser
\* returns at least one record. Violated: the pattern is anchored at the
\* start of the text, and the body taken is the first group of the pattern.
C6_SectionFoundOnAnyLine ==
    (/\ calls = 1
     /\ \E k \in 1..Len(arg) :
            /\ k = 1 \/ arg[k - 1] = "\n"
            /\ C6_At(arg, k, LineSection \o <<"\n", "\n">> \o LineRule))
        => ret # <<>>

(***************************************************************************)
(* Properties of parse_pdf._parse_rv_tables                                *)
(***************************************************************************)
\* every record so far has a description of 3 characters or more and a
\* non-empty field
C7_RecordsQualify ==
    \A k \in 1..Len(ret.recs) :
        /\ Len(ret.recs[k].descricao) >= 3
        /\ \E f \in {"campo", "regra", "aplic", "msg", "descricao"} : ret.recs[k][f] # <<>>

\* tbl has fewer than 2 rows, or none of its first 3 rows is a header
C7_NoHeader(tbl) ==
    \/ Len(tbl) < 2
    \/ \A h \in 1..Len(tbl) : h <= 3 => ~guess_has_rv_header(CellsOrEmpty(tbl[h]))

\* a page all of whose tables are too short or without a header adds no record
C7_PageAddsNothing ==
    (/\ calls' = calls + 1
     /\ \A tables \in {iter_tables(arg')} :
            \A t \in 1..Len(tables) : C7_NoHeader(tables[t]))
        => ret' = ret

\* C7: every record the table parser returns, whatever the pages and tables,
\* has a normalized description of at least 3 characters and at least one
\* non-empty field, and a table with fewer than 2 rows or without a header in
\* its first 3 rows contributes no record.
C7_TableRecordsQualify == [](C7_RecordsQualify) /\ [][C7_PageAddsNothing]_vars

\* a page with a header, a row that is kept and a row whose description is
\* too short
C7_ShortDescriptionDropped ==
    /\ calls = 1
    /\ arg = PageOf(<<HdrFull, RowB09, RowShortDesc>>)
    /\ Len(ret.recs) = 1

(***************************************************************************)
(* Properties of parse_pdf._extract_versions_block                         *)
(***************************************************************************)
\* the greatest element of a non-empty set of indices
C8_MaxOf(S) == CHOOSE x \in S : \A y \in S : y <= x

\* C8: with the lines that follow the first "Controle de Versões" header
\* (the rest of the header's own line is the first of them), the version is
\* the label of the last line among the first 120 that has the shape
\* "<digits>.<digits> <month/year> <rest>": not the first and not the
\* largest label; every such line among the 120 counts and no later line
\* does; the version is unset when the header is missing or no line among
\* the 120 has the shape.
C8_LastLabelInWindow ==
    calls = 1 =>
        \A e \in {ControlVerSearch(arg)} :
        \A lines \in {IF e = 0 THEN <<>> ELSE splitlines(Tail_(arg, e))} :
        \A matching \in {{k \in 1..Len(lines) :
                            k <= 120 /\ VersaoLinha(Strip(lines[k])) # <<>>}} :
            ret.versao = IF matching = {} THEN None
                         ELSE VersaoLinha(Strip(lines[C8_MaxOf(matching)]))

\* the header, 118 line breaks, the line of 1.20 and then the line of 1.00 as
\* line 120 of the window: the version is 1.00
C8_LastOfTwoAtWindowEdge ==
    /\ calls = 1
    /\ Len(arg) > 120
    /\ ret.versao = <<"1", ".", "0", "0">>

\* p comes before q, or is q: (line, column) pairs in reading order
C9_NotAfter(p, q) == p[1] < q[1] \/ (p[1] = q[1] /\ p[2] <= q[2])

\* the last pair of a non-empty set of pairs
C9_LastOf(P) == CHOOSE p \in P : \A q \in P : C9_NotAfter(q, p)

\* the date that starts at pair p
C9_DateOf(lines, p) == SubSeq(lines[p[1]], p[2], p[2] + 9)

C10_CleanSpaceIdempotent == calls = 2 => ret[2] = ret[1]

\* a string with a non-breaking space and a line break that clean_space
\* changes
C10_MixedStringNormalized ==
    /\ calls = 2
    /\ arg # None
    /\ \E a, b \in 1..Len(arg) : arg[a] = "nbsp" /\ arg[b] = "\n"
    /\ ret[1] # arg /\ ret[1] # <<>>

(***************************************************************************)
(* Properties of the rows of a table in parse_pdf._parse_rv_tables         *)
(***************************************************************************)
\* C11: whichever of the first 3 rows of a table is taken as the header, the
\* records come from the rows after it only: a page with one table whose
\* header is row h of n gives at most n - h records. Violated: the loop is
\* over tbl[1:], every row but the first, wherever the header was found.
C11_OnlyRowsAfterHeader ==
    (calls = 1 /\ ~ret.raised) =>
        \A tables \in {iter_tables(arg)} :
            Len(tables) = 1 =>
                \A h \in {HeaderRow(tables[1])} :
                    h > 0 => Len(ret.recs) <= Len(tables[1]) - h

\* C12: a row of any width is tolerated: reading a page never raises because
\* a row is shorter than the header, and the records collected before stay.
\* Violated: the row is padded with 6 cells only, so a column index of
\* len(row) + 6 or more raises IndexError, which leaves _parse_rv_tables
\* with the records of every earlier row, table and page.
C12_ShortRowsTolerated ==
    [][calls' = calls + 1 => (~ret'.raised /\ Len(ret'.recs) >= Len(ret.recs))]_vars

=============================================================================
